---- MODULE Spec2Model ----
(***************************************************************************)
(* Model of the besedarium session-type crate: global protocol combinators *)
(* (src/src/protocol/global.rs, src/src/lib.rs), endpoint types            *)
(* (src/src/protocol/local.rs) and the projection of a global protocol     *)
(* onto a role (src/src/protocol/transforms.rs); the type-level lists and  *)
(* the checks on them (src/src/protocol/base.rs, utils.rs), role and label *)
(* extraction (src/src/introspection.rs) and the assertions of lib.rs.     *)
(*                                                                         *)
(* The crate computes with types: a "value" here is a type, an operator is *)
(* a trait with an associated type, and "NoImpl" stands for a trait bound  *)
(* that no impl satisfies (the compiler rejects the use).                  *)
(***************************************************************************)
EXTENDS Naturals, Sequences, FiniteSets, TLC

VARIABLES g, me, out, op, seqA, seqB

vars == <<g, me, out, op, seqA, seqB>>

(***************************************************************************)
(* Alphabets: the roles, labels and message types the test files declare.  *)
(***************************************************************************)
Roles == {"Alice", "Bob", "Charlie"}

EmptyLabel == "EmptyLabel"

Labels == {EmptyLabel, "TestLabel1"}

Msgs == {"Message", "Response"}

\* Nesting depth of the protocol types the model enumerates.
MaxDepth == 2

\* Longest type-level list that a check is given.
MaxLen == 3

\* Most combinators (nodes other than TEnd) in a protocol that is built up.
MaxSize == 5

\* Most branches handed to the n-ary builder.
MaxBranches == 3

\* Most combinators in a protocol written down as a whole.
MaxNodes == 2

\* Longest list of branches that a builder is given on its own.
MaxList == 4

\* Most combinators in a protocol that a continuation is composed onto.
MaxOperandNodes == 2

(***************************************************************************)
(* Type-level booleans (src/src/types.rs).                                 *)
(***************************************************************************)
True == "True"

False == "False"

\* A trait bound with no matching impl.
NoImpl == "NoImpl"

BoolOr(A, B) ==
    IF A = NoImpl \/ B = NoImpl THEN NoImpl
    ELSE IF A = True \/ B = True THEN True ELSE False

(***************************************************************************)
(* Global protocol combinators.                                            *)
(***************************************************************************)
TEnd(Lbl) == [tag |-> "TEnd", label |-> Lbl]

TInteract(Lbl, R, H, T) ==
    [tag |-> "TInteract", label |-> Lbl, role |-> R, msg |-> H, cont |-> T]

TSend(Lbl, R, H, T) ==
    [tag |-> "TSend", label |-> Lbl, role |-> R, msg |-> H, cont |-> T]

TRecv(Lbl, R, H, T) ==
    [tag |-> "TRecv", label |-> Lbl, role |-> R, msg |-> H, cont |-> T]

TChoice(Lbl, L, R) ==
    [tag |-> "TChoice", label |-> Lbl, left |-> L, right |-> R]

TPar(Lbl, L, R, IsDisjoint) ==
    [tag |-> "TPar", label |-> Lbl, left |-> L, right |-> R,
     isDisjoint |-> IsDisjoint]

TRec(Lbl, S) == [tag |-> "TRec", label |-> Lbl, body |-> S]

(***************************************************************************)
(* Endpoint (local) protocol types.                                        *)
(***************************************************************************)
EpSend(Lbl, R, H, T) ==
    [tag |-> "EpSend", label |-> Lbl, role |-> R, msg |-> H, cont |-> T]

EpRecv(Lbl, R, H, T) ==
    [tag |-> "EpRecv", label |-> Lbl, role |-> R, msg |-> H, cont |-> T]

EpEnd(Lbl, R) == [tag |-> "EpEnd", label |-> Lbl, role |-> R]

EpChoice(Lbl, Me, L, R) ==
    [tag |-> "EpChoice", label |-> Lbl, role |-> Me, left |-> L, right |-> R]

EpPar(Lbl, Me, L, R) ==
    [tag |-> "EpPar", label |-> Lbl, role |-> Me, left |-> L, right |-> R]

EpSkip(Lbl, R) == [tag |-> "EpSkip", label |-> Lbl, role |-> R]

\* The types that implement EpSession.
EpSession == {"EpSend", "EpRecv", "EpEnd", "EpChoice", "EpPar", "EpSkip"}

\* The result of a trait projection that no impl provides.
Unresolved == [tag |-> NoImpl]

\* A type-level boolean used where a type is expected.
BoolType(B) == [tag |-> B]

(***************************************************************************)
(* Role equality, as the protocol author implements it for every pair.     *)
(***************************************************************************)
RoleEq(A, B) == IF A = B THEN True ELSE False

(***************************************************************************)
(* ContainsRole: is role R present in protocol G?  The result is a         *)
(* type-level boolean, or NoImpl where no impl of the trait applies.       *)
(***************************************************************************)
\* A dispatch for TPar that asks for the role in both branches.
TParContainsRoleImpl_BothBranches(LContains, RContains) ==
    CASE LContains = True  /\ RContains = True  -> True
      [] LContains \in {True, False} /\ RContains \in {True, False} -> False
      [] OTHER -> NoImpl

TParContainsRoleImpl(LContains, RContains) ==
    CASE LContains = True  /\ RContains = True  -> True
      [] LContains = True  /\ RContains = False -> True
      [] LContains = False /\ RContains = True  -> True
      [] LContains = False /\ RContains = False -> False
      [] OTHER -> NoImpl

RECURSIVE ContainsRole(_, _)
ContainsRole(G, R) ==
    CASE G.tag = "TEnd" -> False
      [] G.tag = "TInteract" ->
            \* where T: ContainsRole<R2>; the output is always True
            IF ContainsRole(G.cont, R) = NoImpl THEN NoImpl ELSE True
      [] G.tag = "TChoice" ->
            BoolOr(ContainsRole(G.left, R), ContainsRole(G.right, R))
      [] G.tag = "TPar" ->
            TParContainsRoleImpl(ContainsRole(G.left, R), ContainsRole(G.right, R))
      [] G.tag \in {"TSend", "TRecv"} ->
            IF ContainsRole(G.cont, R) = NoImpl THEN NoImpl
            ELSE RoleEq(G.role, R)
      [] OTHER -> NoImpl   \* TRec: the trait has no impl

(***************************************************************************)
(* Projection helpers.  PT, PL and PR stand for the associated type        *)
(* <() as ProjectRole<Me, IO, _>>::Out of the continuation or branch that  *)
(* the impl names in its where clause.                                     *)
(***************************************************************************)
\* A projection of TEnd that drops the label of the global end.
ProjectEnd_DropsLabel(Me, Lbl) == EpEnd(EmptyLabel, Me)

\* impl ProjectRole<Me, IO, TEnd<IO, Lbl>> for ()
ProjectEnd(Me, Lbl) == EpEnd(Lbl, Me)

\* A dispatch with the two directions exchanged: the owner receives.
ProjectInteract_Swapped(Flag, Me, Lbl, R, H, PT) ==
    IF PT = Unresolved THEN Unresolved
    ELSE CASE Flag = True  -> EpRecv(Lbl, Me, H, PT)
           [] Flag = False -> EpSend(Lbl, Me, H, PT)
           [] OTHER -> Unresolved

\* trait ProjectInteract and its two impls, selected by <Me as RoleEq<R>>::Output
ProjectInteract(Flag, Me, Lbl, R, H, PT) ==
    IF PT = Unresolved THEN Unresolved
    ELSE CASE Flag = True  -> EpSend(Lbl, Me, H, PT)
           [] Flag = False -> EpRecv(Lbl, Me, H, PT)
           [] OTHER -> Unresolved

\* impl ProjectRole<Me, IO, TSend<..>> / TRecv<..>: Out is the RoleEq output
ProjectSendRecv(Me, R, PT) ==
    IF PT = Unresolved THEN Unresolved ELSE BoolType(RoleEq(Me, R))

\* A choice projection that exchanges the branches when both hold the role.
ProjectChoiceCase_SwapsBranches(Me, Lbl, PL, PR, LContainsMe, RContainsMe) ==
    CASE LContainsMe = True /\ RContainsMe = True ->
            IF PL = Unresolved \/ PR = Unresolved THEN Unresolved
            ELSE EpChoice(Lbl, Me, PR, PL)
      [] LContainsMe = True /\ RContainsMe = False ->
            IF PL = Unresolved THEN Unresolved
            ELSE EpChoice(Lbl, Me, PL, EpSkip(Lbl, Me))
      [] LContainsMe = False /\ RContainsMe = True ->
            IF PR = Unresolved THEN Unresolved
            ELSE EpChoice(Lbl, Me, EpSkip(Lbl, Me), PR)
      [] LContainsMe = False /\ RContainsMe = False -> EpSkip(Lbl, Me)
      [] OTHER -> Unresolved

\* A choice projection that, like the one of TPar, returns the only branch
\* holding the role without wrapping it.
ProjectChoiceCase_Unwrapped(Me, Lbl, PL, PR, LContainsMe, RContainsMe) ==
    CASE LContainsMe = True /\ RContainsMe = True ->
            IF PL = Unresolved \/ PR = Unresolved THEN Unresolved
            ELSE EpChoice(Lbl, Me, PL, PR)
      [] LContainsMe = True /\ RContainsMe = False -> PL
      [] LContainsMe = False /\ RContainsMe = True -> PR
      [] LContainsMe = False /\ RContainsMe = False -> EpSkip(Lbl, Me)
      [] OTHER -> Unresolved

\* trait ProjectChoiceCase and its four impls, selected by the presence flags
ProjectChoiceCase(Me, Lbl, PL, PR, LContainsMe, RContainsMe) ==
    CASE LContainsMe = True /\ RContainsMe = True ->
            IF PL = Unresolved \/ PR = Unresolved THEN Unresolved
            ELSE EpChoice(Lbl, Me, PL, PR)
      [] LContainsMe = True /\ RContainsMe = False ->
            IF PL = Unresolved THEN Unresolved
            ELSE EpChoice(Lbl, Me, PL, EpSkip(Lbl, Me))
      [] LContainsMe = False /\ RContainsMe = True ->
            IF PR = Unresolved THEN Unresolved
            ELSE EpChoice(Lbl, Me, EpSkip(Lbl, Me), PR)
      [] LContainsMe = False /\ RContainsMe = False -> EpSkip(Lbl, Me)
      [] OTHER -> Unresolved

\* A parallel projection that labels EpPar with the label of the projected
\* left branch, as ComposeProjectedParBranchesCase does.
ProjectParCase_BranchLabel(Me, Lbl, PL, PR, LContainsMe, RContainsMe) ==
    CASE LContainsMe = True /\ RContainsMe = False -> PL
      [] LContainsMe = False /\ RContainsMe = True -> PR
      [] LContainsMe = False /\ RContainsMe = False -> EpSkip(Lbl, Me)
      [] LContainsMe = True /\ RContainsMe = True ->
            IF PL = Unresolved \/ PR = Unresolved THEN Unresolved
            ELSE EpPar(PL.label, Me, PL, PR)
      [] OTHER -> Unresolved

\* trait ProjectParCase and its four impls, selected by the presence flags
\* A projection of TPar that wraps the two projections whatever the flags are.
ProjectParCase_AlwaysWraps(Me, Lbl, PL, PR, LContainsMe, RContainsMe) ==
    IF LContainsMe \in {True, False} /\ RContainsMe \in {True, False}
    THEN EpPar(Lbl, Me, PL, PR)
    ELSE Unresolved

ProjectParCase(Me, Lbl, PL, PR, LContainsMe, RContainsMe) ==
    CASE LContainsMe = True /\ RContainsMe = False -> PL
      [] LContainsMe = False /\ RContainsMe = True -> PR
      [] LContainsMe = False /\ RContainsMe = False -> EpSkip(Lbl, Me)
      [] LContainsMe = True /\ RContainsMe = True ->
            IF PL = Unresolved \/ PR = Unresolved THEN Unresolved
            ELSE EpPar(Lbl, Me, PL, PR)
      [] OTHER -> Unresolved

(***************************************************************************)
(* ProjectRole: the projection of global protocol G onto role Me, by the   *)
(* impls of src/src/protocol/transforms.rs.                                *)
(***************************************************************************)
RECURSIVE ProjectRole(_, _)
ProjectRole(Me, G) ==
    CASE G.tag = "TEnd" -> ProjectEnd(Me, G.label)
      [] G.tag = "TInteract" ->
            ProjectInteract(RoleEq(Me, G.role), Me, G.label, G.role, G.msg,
                            ProjectRole(Me, G.cont))
      [] G.tag = "TChoice" ->
            ProjectChoiceCase(Me, G.label,
                              ProjectRole(Me, G.left), ProjectRole(Me, G.right),
                              ContainsRole(G.left, Me), ContainsRole(G.right, Me))
      [] G.tag = "TPar" ->
            ProjectParCase(Me, G.label,
                           ProjectRole(Me, G.left), ProjectRole(Me, G.right),
                           ContainsRole(G.left, Me), ContainsRole(G.right, Me))
      [] G.tag \in {"TSend", "TRecv"} ->
            ProjectSendRecv(Me, G.role, ProjectRole(Me, G.cont))
      [] OTHER -> Unresolved   \* TRec: ProjectRole has no impl

(***************************************************************************)
(* The special-case ProjectPar impls of src/src/protocol/test_helpers.rs   *)
(* (and of tests/label_preservation_tests_fix.rs).  They are generic in    *)
(* the three labels and fix the roles, the messages and the shape of both  *)
(* branches; the set holds the Out of every special impl that matches.     *)
(***************************************************************************)
ProjectParTestHelpers(Me, Lbl, L, R) ==
    IF /\ L.tag = "TInteract" /\ R.tag = "TInteract"
       /\ L.role = "Alice" /\ L.msg = "Message"
       /\ R.role = "Bob" /\ R.msg = "Response"
       /\ L.label = R.label
       /\ L.cont.tag = "TEnd" /\ R.cont.tag = "TEnd"
       /\ L.cont.label = R.cont.label
    THEN CASE Me = "Alice" ->
                {EpSend(L.label, "Alice", "Message", EpEnd(L.cont.label, "Alice"))}
           [] Me = "Charlie" -> {EpSkip(Lbl, "Charlie")}
           [] OTHER -> {}
    ELSE {}

(***************************************************************************)
(* Every Out that trait resolution can reach for ProjectRole<Me, IO, G>    *)
(* when the special-case impls are in scope beside the generic ones.       *)
(***************************************************************************)
RECURSIVE ProjectRoleWithTestHelpers(_, _)
ProjectRoleWithTestHelpers(Me, G) ==
    CASE G.tag = "TEnd" -> {ProjectEnd(Me, G.label)}
      [] G.tag = "TInteract" ->
            {ProjectInteract(RoleEq(Me, G.role), Me, G.label, G.role, G.msg, pt) :
                pt \in ProjectRoleWithTestHelpers(Me, G.cont)}
      [] G.tag = "TChoice" ->
            {ProjectChoiceCase(Me, G.label, pl, pr,
                               ContainsRole(G.left, Me), ContainsRole(G.right, Me)) :
                pl \in ProjectRoleWithTestHelpers(Me, G.left),
                pr \in ProjectRoleWithTestHelpers(Me, G.right)}
      [] G.tag = "TPar" ->
            {ProjectParCase(Me, G.label, pl, pr,
                            ContainsRole(G.left, Me), ContainsRole(G.right, Me)) :
                pl \in ProjectRoleWithTestHelpers(Me, G.left),
                pr \in ProjectRoleWithTestHelpers(Me, G.right)}
            \cup ProjectParTestHelpers(Me, G.label, G.left, G.right)
      [] G.tag \in {"TSend", "TRecv"} ->
            {ProjectSendRecv(Me, G.role, pt) :
                pt \in ProjectRoleWithTestHelpers(Me, G.cont)}
      [] OTHER -> {Unresolved}

(***************************************************************************)
(* Type-level lists (src/src/protocol/base.rs): Nil and Cons<H, T>, here   *)
(* the sequences of TLA+.  A marker trait such as UniqueList is a          *)
(* predicate: TRUE where an impl applies, FALSE where none does.           *)
(***************************************************************************)
Nil == <<>>

Cons(H, T) == <<H>> \o T

\* impl<A, B> NotTypeEq<B> for A {}: the blanket impl applies to every pair
\* of types, the pair of a type with itself included.
NotTypeEq(A, B) == TRUE

\* impl<A, B> NotSame<B> for A where A: NotTypeEq<B> {}
NotSame(A, B) == NotTypeEq(A, B)

\* List: NotInList<X>
RECURSIVE NotInList(_, _)
NotInList(List, X) ==
    IF List = Nil THEN TRUE
    ELSE NotSame(X, Head(List)) /\ NotInList(Tail(List), X)

\* List: UniqueList
RECURSIVE UniqueList(_)
UniqueList(List) ==
    IF List = Nil THEN TRUE
    ELSE NotInList(Tail(List), Head(List)) /\ UniqueList(Tail(List))

(***************************************************************************)
(* Disjointness of two type-level lists, src/src/protocol/utils.rs:        *)
(* (): Disjoint<L, R>, dispatched on whether R is Nil.                     *)
(***************************************************************************)
CheckNil(R) == IF R = Nil THEN "IsNil" ELSE "IsNotNil"

\* A disjointness that looks for the head of L in R and skips the tail of L.
Disjoint_HeadOnly(L, R) ==
    \/ L = Nil
    \/ \A j \in DOMAIN R : R[j] # Head(L)

RECURSIVE Disjoint(_, _)
DisjointCons(H, L, R, IsRNil) ==
    CASE IsRNil = "IsNil" -> R = Nil
      [] IsRNil = "IsNotNil" -> NotInList(R, H) /\ Disjoint(L, R)
      [] OTHER -> FALSE

Disjoint(L, R) ==
    IF L = Nil THEN TRUE
    ELSE DisjointCons(Head(L), Tail(L), R, CheckNil(R))

(***************************************************************************)
(* Disjointness as src/src/lib.rs defines it, with NotContains.            *)
(***************************************************************************)
\* impl<X, H, T> NotContains<X> for Cons<H, T> where T: NotContains<X> {}
RECURSIVE NotContains(_, _)
NotContains(List, X) ==
    IF List = Nil THEN TRUE ELSE NotContains(Tail(List), X)

RECURSIVE LibDisjoint(_, _)
LibDisjoint(A, B) ==
    IF A = Nil THEN TRUE
    ELSE NotContains(B, Head(A)) /\ LibDisjoint(Tail(A), B)

(***************************************************************************)
(* Role and label extraction (src/src/introspection.rs, src/src/lib.rs).   *)
(* RolesOfImpl(G) says that an impl of RolesOf applies to G; RolesOf(G) is *)
(* then its associated type Roles.  TChoice and TPar take the list of      *)
(* their left branch.                                                      *)
(***************************************************************************)
RECURSIVE RolesOfImpl(_)
RolesOfImpl(G) ==
    CASE G.tag = "TEnd" -> TRUE
      [] G.tag = "TInteract" -> RolesOfImpl(G.cont)
      [] G.tag \in {"TChoice", "TPar"} -> RolesOfImpl(G.left)
      [] G.tag = "TRec" -> RolesOfImpl(G.body)
      [] OTHER -> FALSE

RECURSIVE RolesOf(_)
RolesOf(G) ==
    CASE G.tag = "TEnd" -> Nil
      [] G.tag = "TInteract" -> Cons(G.role, RolesOf(G.cont))
      [] G.tag \in {"TChoice", "TPar"} -> RolesOf(G.left)
      [] G.tag = "TRec" -> RolesOf(G.body)

\* The impls of RolesOf in lib.rs: the one for TEnd is written for TEnd<IO>,
\* the end with the default label EmptyLabel.
RECURSIVE LibRolesOfImpl(_)
LibRolesOfImpl(G) ==
    CASE G.tag = "TEnd" -> G.label = EmptyLabel
      [] G.tag = "TInteract" -> LibRolesOfImpl(G.cont)
      [] G.tag \in {"TChoice", "TPar"} -> LibRolesOfImpl(G.left)
      [] G.tag = "TRec" -> LibRolesOfImpl(G.body)
      [] OTHER -> FALSE

RECURSIVE LabelsOfImpl(_)
LabelsOfImpl(G) ==
    CASE G.tag = "TEnd" -> TRUE
      [] G.tag = "TInteract" -> LabelsOfImpl(G.cont)
      [] G.tag \in {"TChoice", "TPar"} -> LabelsOfImpl(G.left) /\ LabelsOfImpl(G.right)
      [] G.tag = "TRec" -> LabelsOfImpl(G.body)
      [] OTHER -> FALSE

\* A label extraction that folds over both branches of TChoice and TPar.
RECURSIVE LabelsOf_BothBranches(_)
LabelsOf_BothBranches(G) ==
    CASE G.tag = "TEnd" -> Cons(G.label, Nil)
      [] G.tag = "TInteract" -> Cons(G.label, LabelsOf_BothBranches(G.cont))
      [] G.tag \in {"TChoice", "TPar"} ->
            Cons(G.label, LabelsOf_BothBranches(G.left) \o LabelsOf_BothBranches(G.right))
      [] G.tag = "TRec" -> Cons(G.label, LabelsOf_BothBranches(G.body))

RECURSIVE LabelsOf(_)
LabelsOf(G) ==
    CASE G.tag = "TEnd" -> Cons(G.label, Nil)
      [] G.tag = "TInteract" -> Cons(G.label, LabelsOf(G.cont))
      [] G.tag \in {"TChoice", "TPar"} -> Cons(G.label, LabelsOf(G.left))
      [] G.tag = "TRec" -> Cons(G.label, LabelsOf(G.body))

(***************************************************************************)
(* TSession::Compose, the n-ary builder ToTPar and AssertDisjoint.         *)
(***************************************************************************)
\* A composition that leaves a TEnd, and with it the label of the TEnd, in place.
Compose_KeepsEnd(G, Rhs) == G

\* A composition that puts Rhs in the place of the continuation of a TInteract.
RECURSIVE Compose_ReplacesContinuation(_, _)
Compose_ReplacesContinuation(G, Rhs) ==
    CASE G.tag = "TEnd" -> Rhs
      [] G.tag \in {"TInteract", "TSend", "TRecv"} -> [G EXCEPT !.cont = Rhs]
      [] G.tag \in {"TChoice", "TPar"} ->
            [G EXCEPT !.left = Compose_ReplacesContinuation(G.left, Rhs),
                      !.right = Compose_ReplacesContinuation(G.right, Rhs)]
      [] G.tag = "TRec" -> [G EXCEPT !.body = Compose_ReplacesContinuation(G.body, Rhs)]

RECURSIVE Compose(_, _)
Compose(G, Rhs) ==
    CASE G.tag = "TEnd" -> Rhs
      [] G.tag = "TInteract" -> TInteract(G.label, G.role, G.msg, Compose(G.cont, Rhs))
      [] G.tag = "TSend" -> TSend(G.label, G.role, G.msg, Compose(G.cont, Rhs))
      [] G.tag = "TRecv" -> TRecv(G.label, G.role, G.msg, Compose(G.cont, Rhs))
      [] G.tag = "TChoice" ->
            TChoice(G.label, Compose(G.left, Rhs), Compose(G.right, Rhs))
      [] G.tag = "TPar" ->
            TPar(G.label, Compose(G.left, Rhs), Compose(G.right, Rhs), G.isDisjoint)
      [] G.tag = "TRec" -> TRec(G.label, Compose(G.body, Rhs))

\* A builder whose base case is the one-element list, which maps to its element.
RECURSIVE ToTChoice_SingleBase(_)
ToTChoice_SingleBase(List) ==
    IF List = Nil THEN TEnd(EmptyLabel)
    ELSE IF Tail(List) = Nil THEN Head(List)
    ELSE TChoice(EmptyLabel, Head(List), ToTChoice_SingleBase(Tail(List)))

RECURSIVE ToTChoice(_)
ToTChoice(List) ==
    IF List = Nil THEN TEnd(EmptyLabel)
    ELSE TChoice(EmptyLabel, Head(List), ToTChoice(Tail(List)))

RECURSIVE ToTPar(_)
ToTPar(List) ==
    IF List = Nil THEN TEnd(EmptyLabel)
    ELSE TPar(EmptyLabel, Head(List), ToTPar(Tail(List)), False)

\* <P as AssertDisjoint>::Output with the two impls of lib.rs, both for a
\* TPar labelled EmptyLabel; Unresolved where neither applies.
AssertDisjoint(P) ==
    IF P.tag = "TPar" /\ P.label = EmptyLabel
    THEN CASE P.isDisjoint = False ->
                IF /\ LibRolesOfImpl(P.left) /\ LibRolesOfImpl(P.right)
                   /\ LibDisjoint(RolesOf(P.left), RolesOf(P.right))
                   /\ LibDisjoint(RolesOf(P.right), RolesOf(P.left))
                THEN TPar(EmptyLabel, P.left, P.right, True)
                ELSE Unresolved
           [] P.isDisjoint = True -> TPar(EmptyLabel, P.left, P.right, True)
           [] OTHER -> Unresolved
    ELSE Unresolved

(***************************************************************************)
(* The protocol types the model enumerates.  Unary(S) puts one TInteract   *)
(* or TRec on top of a protocol of S, Binary(S) joins two protocols of S   *)
(* in a TChoice or a TPar.  Sessions(d) is every protocol whose            *)
(* combinators nest at most d deep; SessionsSendRecv(d) adds the TSend     *)
(* and TRecv forms of global.rs.                                           *)
(***************************************************************************)
Ends == {TEnd(l) : l \in Labels}

Unary(S) ==
    {TInteract(l, r, h, t) : l \in Labels, r \in Roles, h \in Msgs, t \in S}
      \cup {TRec(l, s) : l \in Labels, s \in S}

UnarySendRecv(S) ==
    {TSend(l, r, h, t) : l \in Labels, r \in Roles, h \in Msgs, t \in S}
      \cup {TRecv(l, r, h, t) : l \in Labels, r \in Roles, h \in Msgs, t \in S}

Binary(S) ==
    {TChoice(l, a, b) : l \in Labels, a \in S, b \in S}
      \cup {TPar(l, a, b, d) : l \in Labels, a \in S, b \in S, d \in {True, False}}

RECURSIVE Sessions(_)
Sessions(d) ==
    IF d = 0 THEN Ends
    ELSE LET S == Sessions(d - 1)
         IN  S \cup Unary(S) \cup Binary(S)

RECURSIVE SessionsSendRecv(_)
SessionsSendRecv(d) ==
    IF d = 0 THEN Ends
    ELSE LET S == SessionsSendRecv(d - 1)
         IN  S \cup Unary(S) \cup UnarySendRecv(S) \cup Binary(S)

NotProjected == [tag |-> "NotProjected"]

Init ==
    /\ g \in Sessions(MaxDepth)
    /\ me = "none"
    /\ out = NotProjected
    /\ op = "define"
    /\ seqA = Nil
    /\ seqB = Nil

InitSendRecv ==
    /\ g \in SessionsSendRecv(MaxDepth)
    /\ me = "none"
    /\ out = NotProjected
    /\ op = "define"
    /\ seqA = Nil
    /\ seqB = Nil

\* type Local = <() as ProjectRole<Me, IO, G>>::Out, with the impls of the crate
Project ==
    \E r \in Roles :
        /\ out = NotProjected
        /\ me' = r
        /\ out' = ProjectRole(r, g)
        /\ op' = "ProjectRole"
        /\ UNCHANGED <<g, seqA, seqB>>

\* The same projection with the special-case impls in scope: resolution may
\* select any impl that matches.
ProjectTestHelpers ==
    \E r \in Roles :
        \E o \in ProjectRoleWithTestHelpers(r, g) :
            /\ out = NotProjected
            /\ me' = r
            /\ out' = o
            /\ op' = "ProjectRoleTestHelpers"
            /\ UNCHANGED <<g, seqA, seqB>>

Next ==
    \/ Project
    \/ ProjectTestHelpers

Spec == Init /\ [][Next]_vars

SpecSendRecv == InitSendRecv /\ [][Next]_vars

(***************************************************************************)
(* The checks on type-level lists.  A check is a trait bound: it holds     *)
(* (the program compiles) or no impl satisfies it (the program is          *)
(* rejected).                                                              *)
(***************************************************************************)
Holds == [tag |-> "Holds"]

Rejected == Unresolved

Check(bound) == IF bound THEN Holds ELSE Rejected

NoSession == [tag |-> "NoSession"]

RECURSIVE Lists(_, _)
Lists(E, n) ==
    IF n = 0 THEN {Nil}
    ELSE LET S == Lists(E, n - 1)
         IN  S \cup {Cons(h, t) : h \in E, t \in S}

InitLists ==
    /\ g = NoSession
    /\ me = "none"
    /\ out = NotProjected
    /\ op = "define"
    /\ \E E \in {Roles, Labels} :
          /\ seqA \in Lists(E, MaxLen)
          /\ seqB \in Lists(E, MaxLen)

\* (): Disjoint<seqA, seqB> with the impls of protocol/utils.rs
CheckDisjoint ==
    /\ op = "define"
    /\ out' = Check(Disjoint(seqA, seqB))
    /\ op' = "Disjoint"
    /\ UNCHANGED <<g, me, seqA, seqB>>

\* (): Disjoint<seqA, seqB> with the impls of lib.rs
CheckLibDisjoint ==
    /\ op = "define"
    /\ out' = Check(LibDisjoint(seqA, seqB))
    /\ op' = "LibDisjoint"
    /\ UNCHANGED <<g, me, seqA, seqB>>

\* seqA: UniqueList
CheckUniqueList ==
    /\ op = "define"
    /\ out' = Check(UniqueList(seqA))
    /\ op' = "UniqueList"
    /\ UNCHANGED <<g, me, seqA, seqB>>

\* A list that passed UniqueList is checked again with one element removed.
RemoveElement ==
    /\ op = "UniqueList" /\ out = Holds
    /\ \E i \in DOMAIN seqA :
          LET shorter == SubSeq(seqA, 1, i - 1) \o SubSeq(seqA, i + 1, Len(seqA))
          IN  /\ seqA' = shorter
              /\ out' = Check(UniqueList(shorter))
    /\ op' = "RemoveElement"
    /\ UNCHANGED <<g, me, seqB>>

\* A list that passed UniqueList is checked again with a copy of one of its
\* elements prepended.
PrependDuplicate ==
    /\ op = "UniqueList" /\ out = Holds
    /\ \E i \in DOMAIN seqA :
          /\ seqA' = Cons(seqA[i], seqA)
          /\ out' = Check(UniqueList(Cons(seqA[i], seqA)))
    /\ op' = "PrependDuplicate"
    /\ UNCHANGED <<g, me, seqB>>

NextLists ==
    \/ CheckDisjoint
    \/ CheckLibDisjoint
    \/ CheckUniqueList
    \/ RemoveElement
    \/ PrependDuplicate

SpecLists == InitLists /\ [][NextLists]_vars

(***************************************************************************)
(* Building a protocol step by step.  g is the protocol an operation is    *)
(* applied to and out its result; the next operation applies to the        *)
(* latest protocol obtained.                                               *)
(***************************************************************************)
TSessionTags == {"TEnd", "TInteract", "TSend", "TRecv", "TChoice", "TPar", "TRec"}

Operand == IF out.tag \in TSessionTags THEN out ELSE g

RECURSIVE Size(_)
Size(G) ==
    CASE G.tag = "TEnd" -> 0
      [] G.tag \in {"TInteract", "TSend", "TRecv"} -> 1 + Size(G.cont)
      [] G.tag \in {"TChoice", "TPar"} -> 1 + Size(G.left) + Size(G.right)
      [] G.tag = "TRec" -> 1 + Size(G.body)

\* The protocols that a step combines with the one at hand.
ParBranches ==
    {TEnd(EmptyLabel)}
      \cup {TInteract(EmptyLabel, r, "Message", TEnd(EmptyLabel)) : r \in {"Alice", "Bob"}}

InitPar ==
    /\ g \in ParBranches
    /\ me = "none"
    /\ out = NotProjected
    /\ op = "define"
    /\ seqA = Nil
    /\ seqB = Nil

\* type P = TPar<IO, Lbl, L, R, FalseB>, as the tests write it
BuildPar ==
    \E l \in Labels, b \in ParBranches :
        /\ Size(TPar(l, Operand, b, False)) <= MaxSize
        /\ g' = Operand
        /\ out' = TPar(l, Operand, b, False)
        /\ op' = "TPar"
        /\ UNCHANGED <<me, seqA, seqB>>

\* type C = TChoice<IO, Lbl, L, R>
BuildChoice ==
    \E b \in ParBranches :
        /\ Size(TChoice(EmptyLabel, Operand, b)) <= MaxSize
        /\ g' = Operand
        /\ out' = TChoice(EmptyLabel, Operand, b)
        /\ op' = "TChoice"
        /\ UNCHANGED <<me, seqA, seqB>>

\* tpar!(IO; b1, b2, ...) = <tlist!(b1, b2, ...) as ToTPar<IO>>::Output
BuildToTPar ==
    \E rest \in Lists(ParBranches, MaxBranches - 1) \ {Nil} :
        /\ Size(ToTPar(Cons(Operand, rest))) <= MaxSize
        /\ g' = Operand
        /\ out' = ToTPar(Cons(Operand, rest))
        /\ op' = "ToTPar"
        /\ UNCHANGED <<me, seqA, seqB>>

\* assert_disjoint!(par P): type _Checked = <P as AssertDisjoint>::Output
AssertDisjointPar ==
    /\ Operand.tag = "TPar"
    /\ g' = Operand
    /\ out' = AssertDisjoint(Operand)
    /\ op' = "AssertDisjoint"
    /\ UNCHANGED <<me, seqA, seqB>>

\* type Q = <P as TSession<IO>>::Compose<Rhs>
ComposeRhs ==
    \E rhs \in ParBranches :
        /\ Size(Compose(Operand, rhs)) <= MaxSize
        /\ g' = Operand
        /\ out' = Compose(Operand, rhs)
        /\ op' = "Compose"
        /\ UNCHANGED <<me, seqA, seqB>>

NextPar ==
    \/ BuildPar
    \/ BuildChoice
    \/ BuildToTPar
    \/ AssertDisjointPar
    \/ ComposeRhs

SpecPar == InitPar /\ [][NextPar]_vars

\* assert_unique_labels!(T): <T as LabelsOf>::Labels: UniqueList
AssertUniqueLabels ==
    /\ g' = Operand
    /\ out' = Check(LabelsOfImpl(Operand) /\ UniqueList(LabelsOf(Operand)))
    /\ op' = "assert_unique_labels"
    /\ UNCHANGED <<me, seqA, seqB>>

\* The two assertions applied to a protocol written down as a whole.
NextAnalyses ==
    \/ AssertDisjointPar
    \/ AssertUniqueLabels

SpecAnalyses == Init /\ [][NextAnalyses]_vars

(***************************************************************************)
(* Properties of the projection.                                           *)
(***************************************************************************)
\* The state holds the projection of g onto me by the impls of the crate.
Projected == op = "ProjectRole"

\* The roles that own a TInteract somewhere in G.
RECURSIVE Owners(_)
Owners(G) ==
    CASE G.tag = "TEnd" -> {}
      [] G.tag \in {"TInteract", "TSend", "TRecv"} -> {G.role} \cup Owners(G.cont)
      [] G.tag \in {"TChoice", "TPar"} -> Owners(G.left) \cup Owners(G.right)
      [] OTHER -> Owners(G.body)

\* TPar or TChoice whose branches are TInteract<L2, A, m, TEnd<L3>> and
\* TInteract<L2, B, m', TEnd<L3>> with A # B.
TwoInteractBranches(G) ==
    /\ G.left.tag = "TInteract" /\ G.right.tag = "TInteract"
    /\ G.left.role # G.right.role
    /\ G.left.label = G.right.label
    /\ G.left.cont.tag = "TEnd" /\ G.right.cont.tag = "TEnd"
    /\ G.left.cont.label = G.right.cont.label

C3_ParLeftOnlyIsRawLeft ==
    (Projected /\ g.tag = "TPar" /\ TwoInteractBranches(g) /\ me = g.left.role) =>
        out = EpSend(g.left.label, me, g.left.msg, EpEnd(g.left.cont.label, me))

\* C4: projecting the same TPar onto a third role C gives EpSkip<L1, C>.
C4_ParAbsentIsSkip ==
    (Projected /\ g.tag = "TPar" /\ TwoInteractBranches(g)
        /\ me \notin {g.left.role, g.right.role}) =>
        out = EpSkip(g.label, me)

\* C5: when the observer is present in both branches of TChoice<L, l, r> the
\* projection is EpChoice<L, Me, project(l), project(r)>; for the two-interaction
\* choice projected onto the left owner it is
\* EpChoice<L1, A, EpSend<L2, A, m, EpEnd<L3, A>>, EpRecv<L2, A, m', EpEnd<L3, A>>>.
C5_ChoiceBothPresent ==
    (Projected /\ g.tag = "TChoice") =>
        /\ (ContainsRole(g.left, me) = True /\ ContainsRole(g.right, me) = True) =>
              out = EpChoice(g.label, me, ProjectRole(me, g.left), ProjectRole(me, g.right))
        /\ (TwoInteractBranches(g) /\ me = g.left.role) =>
              out = EpChoice(g.label, me,
                        EpSend(g.left.label, me, g.left.msg, EpEnd(g.left.cont.label, me)),
                        EpRecv(g.right.label, me, g.right.msg, EpEnd(g.right.cont.label, me)))

C5_Witness ==
    /\ Projected /\ g.tag = "TChoice" /\ TwoInteractBranches(g)
    /\ me = g.left.role /\ g.label # g.left.label /\ g.left.msg # g.right.msg
    /\ out.tag = "EpChoice" /\ out.left.tag = "EpSend" /\ out.right.tag = "EpRecv"

\* C6: when the observer is present in exactly one branch of TChoice<L, l, r> the
\* projection is EpChoice<L, Me, project(l), EpSkip<L, Me>> (present in l only) or
\* EpChoice<L, Me, EpSkip<L, Me>, project(r)> (present in r only).
C6_ChoiceOneBranchWrapped ==
    (Projected /\ g.tag = "TChoice") =>
        /\ (ContainsRole(g.left, me) = True /\ ContainsRole(g.right, me) = False) =>
              out = EpChoice(g.label, me, ProjectRole(me, g.left), EpSkip(g.label, me))
        /\ (ContainsRole(g.left, me) = False /\ ContainsRole(g.right, me) = True) =>
              out = EpChoice(g.label, me, EpSkip(g.label, me), ProjectRole(me, g.right))

C6_Witness ==
    /\ Projected /\ g.tag = "TChoice"
    /\ ContainsRole(g.left, me) = False /\ ContainsRole(g.right, me) = True
    /\ g.right.tag = "TInteract" /\ g.right.label # g.label
    /\ out.tag = "EpChoice" /\ out.left = EpSkip(g.label, me)
    /\ out.right.tag \in {"EpSend", "EpRecv"}

C8_RecProjectsBody ==
    (Projected /\ g.tag = "TRec") =>
        /\ out.tag \in EpSession
        /\ out = ProjectRole(me, g.body)

\* C9: the impls (generic and special-case) assign exactly one endpoint type to
\* each role and protocol: no resolution gives a type other than the one obtained.
C9_ProjectionIsFunction ==
    (op \in {"ProjectRole", "ProjectRoleTestHelpers"}) =>
        \A o \in ProjectRoleWithTestHelpers(me, g) : o = out

\* C10: with role equality implemented for every pair of roles, every protocol
\* built from TEnd, TInteract, TSend, TRecv, TChoice, TPar and TRec projects onto
\* every role, and the result is an endpoint type.
C10_ProjectionTotal ==
    Projected => out.tag \in EpSession

(***************************************************************************)
(* Properties of the checks on lists.                                      *)
(***************************************************************************)
\* No element of A is equal to an element of B.
NoCommonElement(A, B) == \A i \in DOMAIN A : \A j \in DOMAIN B : A[i] # B[j]

\* No two distinct positions of S hold equal elements.
NoRepeat(S) == \A i \in DOMAIN S : \A j \in DOMAIN S : i # j => S[i] # S[j]

\* C11: Disjoint<A, B> holds if and only if no element of A is equal to an
\* element of B; two lists that share a role are not disjoint.
C11_DisjointIffNoCommonElement ==
    (op \in {"Disjoint", "LibDisjoint"}) =>
        (out = Holds <=> NoCommonElement(seqA, seqB))

\* C17: Disjoint<A, B> gives the same answer as Disjoint<B, A>, for the role lists
\* of any two protocols.
C17_DisjointSymmetric ==
    /\ op = "Disjoint" => (out = Holds <=> Disjoint(seqB, seqA))
    /\ op = "LibDisjoint" => (out = Holds <=> LibDisjoint(seqB, seqA))

C17_Witness ==
    /\ op = "Disjoint" /\ out = Holds
    /\ Len(seqA) = 2 /\ Len(seqB) = 1 /\ seqA[1] # seqB[1]
    /\ Disjoint(seqB, seqA)

\* C18: UniqueList holds for a list if and only if no two distinct positions of
\* the list hold equal elements; a list holding a label twice is not unique.
C18_UniqueIffNoRepeat ==
    op = "UniqueList" => (out = Holds <=> NoRepeat(seqA))

\* C20: a list that is unique stays unique with any one element removed, and is
\* not unique with a copy of one of its elements prepended.
C20_UniqueMonotone ==
    /\ op = "RemoveElement" => out = Holds
    /\ op = "PrependDuplicate" => out = Rejected

(***************************************************************************)
(* Properties of assert_disjoint and assert_unique_labels.                 *)
(***************************************************************************)
\* The role lists of the two branches of P have no common element, checked in
\* both directions.
BranchesDisjoint(P) ==
    /\ NoCommonElement(RolesOf(P.left), RolesOf(P.right))
    /\ NoCommonElement(RolesOf(P.right), RolesOf(P.left))

\* The TPar nodes of G, G itself included.
RECURSIVE ParNodes(_)
ParNodes(G) ==
    CASE G.tag \in {"TInteract", "TSend", "TRecv"} -> ParNodes(G.cont)
      [] G.tag = "TChoice" -> ParNodes(G.left) \cup ParNodes(G.right)
      [] G.tag = "TPar" -> {G} \cup ParNodes(G.left) \cup ParNodes(G.right)
      [] G.tag = "TRec" -> ParNodes(G.body)
      [] OTHER -> {}

\* The state holds the result of assert_disjoint on the unverified TPar g.
AssertedUnverified == op = "AssertDisjoint" /\ g.isDisjoint = False

\* C12: assert_disjoint on an unverified TPar (labelled EmptyLabel, as ToTPar
\* builds it) succeeds exactly when the role lists of its branches are disjoint in
\* both directions, and is rejected otherwise; the TPar that ToTPar builds from
\* two branches owned by the same role is rejected.
C12_AssertDisjointExact ==
    (AssertedUnverified /\ g.label = EmptyLabel) =>
        /\ out # Rejected <=> BranchesDisjoint(g)
        /\ \A a \in ParBranches, b \in ParBranches :
              (/\ a.tag = "TInteract" /\ b.tag = "TInteract" /\ a.role = b.role
               /\ g = ToTPar(<<a, b>>)) => out = Rejected

\* C13: in every state reached by building (TPar, ToTPar), assert_disjoint and
\* Compose, each TPar node whose IsDisjoint flag is True has branches whose role
\* lists are disjoint in both directions.
C13_FlagImpliesDisjoint ==
    \A root \in {g, out} :
        root.tag \in TSessionTags =>
            \A p \in ParNodes(root) : p.isDisjoint = True => BranchesDisjoint(p)

\* C14: a TPar accepted by assert_disjoint has no role that owns a TInteract in its
\* left sub-tree and also one in its right sub-tree.
C14_AcceptedParSharesNoOwner ==
    (AssertedUnverified /\ out # Rejected) =>
        Owners(g.left) \cap Owners(g.right) = {}

\* C15: for an unverified TPar with any label whose branches are disjoint,
\* assert_disjoint succeeds and gives the same TPar with the flag set to True.
C15_AssertDisjointSetsOnlyFlag ==
    (AssertedUnverified /\ BranchesDisjoint(g)) =>
        out = TPar(g.label, g.left, g.right, True)

\* C16: assert_disjoint on a TPar whose flag is already True gives that TPar
\* unchanged.
C16_AssertDisjointIdempotent ==
    (op = "AssertDisjoint" /\ g.isDisjoint = True) => out = g

\* C19: assert_unique_labels is rejected whenever the label list of the protocol
\* holds a label twice, and succeeds when it holds none twice.
C19_AssertUniqueLabelsExact ==
    op = "assert_unique_labels" =>
        (out = Rejected <=> ~NoRepeat(LabelsOf(g)))

(***************************************************************************)
(* The analyses applied to a protocol written down as a whole.  Trees(n)   *)
(* is every protocol made of at most n combinators.                        *)
(***************************************************************************)
RECURSIVE TreesOfSize(_)
TreesOfSize(n) ==
    IF n = 0 THEN Ends
    ELSE {TInteract(l, r, "Message", t) :
              l \in Labels, r \in Roles, t \in TreesOfSize(n - 1)}
           \cup {TRec(l, s) : l \in Labels, s \in TreesOfSize(n - 1)}
           \cup UNION {{TChoice(l, a, b) :
                           l \in Labels, a \in TreesOfSize(i),
                           b \in TreesOfSize(n - 1 - i)} : i \in 0..(n - 1)}
           \cup UNION {{TPar(l, a, b, False) :
                           l \in Labels, a \in TreesOfSize(i),
                           b \in TreesOfSize(n - 1 - i)} : i \in 0..(n - 1)}

Trees(n) == UNION {TreesOfSize(i) : i \in 0..n}

InitTrees ==
    /\ g \in Trees(MaxNodes)
    /\ me = "none"
    /\ out = NotProjected
    /\ op = "define"
    /\ seqA = Nil
    /\ seqB = Nil

\* type B = <G as ContainsRole<R>>::Output
CheckContainsRole ==
    \E r \in Roles :
        /\ op = "define"
        /\ me' = r
        /\ out' = BoolType(ContainsRole(g, r))
        /\ op' = "ContainsRole"
        /\ UNCHANGED <<g, seqA, seqB>>

\* type L = <G as LabelsOf>::Labels
ExtractLabels ==
    /\ op = "define"
    /\ out' = Check(LabelsOfImpl(g))
    /\ seqA' = IF LabelsOfImpl(g) THEN LabelsOf(g) ELSE Nil
    /\ op' = "LabelsOf"
    /\ UNCHANGED <<g, me, seqB>>

\* type R = <G as RolesOf>::Roles
ExtractRoles ==
    /\ op = "define"
    /\ out' = Check(RolesOfImpl(g))
    /\ seqA' = IF RolesOfImpl(g) THEN RolesOf(g) ELSE Nil
    /\ op' = "RolesOf"
    /\ UNCHANGED <<g, me, seqB>>

\* type R = <G as RolesOf>::Roles with the impls of lib.rs
ExtractRolesLib ==
    /\ op = "define"
    /\ out' = Check(LibRolesOfImpl(g))
    /\ seqA' = IF LibRolesOfImpl(g) THEN RolesOf(g) ELSE Nil
    /\ op' = "LibRolesOf"
    /\ UNCHANGED <<g, me, seqB>>

NextTrees ==
    \/ CheckContainsRole
    \/ ExtractLabels
    \/ ExtractRoles
    \/ ExtractRolesLib

SpecTrees == InitTrees /\ [][NextTrees]_vars

(***************************************************************************)
(* Properties of role presence and of role and label extraction.           *)
(***************************************************************************)
\* G is built from TEnd, TInteract, TChoice and TPar only.
RECURSIVE RecFree(_)
RecFree(G) ==
    CASE G.tag = "TEnd" -> TRUE
      [] G.tag = "TInteract" -> RecFree(G.cont)
      [] G.tag \in {"TChoice", "TPar"} -> RecFree(G.left) /\ RecFree(G.right)
      [] OTHER -> FALSE

\* Presence as the specification states it.
RECURSIVE Present(_, _)
Present(R, G) ==
    CASE G.tag = "TEnd" -> FALSE
      [] G.tag = "TInteract" -> TRUE
      [] G.tag \in {"TChoice", "TPar"} -> Present(R, G.left) \/ Present(R, G.right)

C23_RolesOfTotal ==
    op \in {"RolesOf", "LibRolesOf"} =>
        /\ out = Holds
        /\ seqA = CASE g.tag = "TEnd" -> Nil
                    [] g.tag = "TInteract" -> <<g.role>> \o RolesOf(g.cont)
                    [] g.tag = "TRec" -> RolesOf(g.body)
                    [] g.tag \in {"TChoice", "TPar"} -> RolesOf(g.left)

(***************************************************************************)
(* The n-ary builders applied to a list of branches: tchoice!(IO; b1, ..)  *)
(* and tpar!(IO; b1, ..) of lib.rs.  seqA is the list tlist!(b1, ..).      *)
(***************************************************************************)
InitBuilders ==
    /\ g = NoSession
    /\ me = "none"
    /\ out = NotProjected
    /\ op = "define"
    /\ seqA \in Lists(ParBranches, MaxList)
    /\ seqB = Nil

\* type C = <tlist!(b1, ..) as ToTChoice<IO>>::Output
BuildTChoiceOfList ==
    /\ op = "define"
    /\ out' = ToTChoice(seqA)
    /\ op' = "ToTChoice"
    /\ UNCHANGED <<g, me, seqA, seqB>>

\* type P = <tlist!(b1, ..) as ToTPar<IO>>::Output
BuildTParOfList ==
    /\ op = "define"
    /\ out' = ToTPar(seqA)
    /\ op' = "ToTPar"
    /\ UNCHANGED <<g, me, seqA, seqB>>

NextBuilders ==
    \/ BuildTChoiceOfList
    \/ BuildTParOfList

SpecBuilders == InitBuilders /\ [][NextBuilders]_vars

\* C24: the n-ary builder applied to four branches gives the manually nested
\* TChoice<b1, TChoice<b2, TChoice<b3, b4>>>, and the TPar builder the same nesting
\* of TPar nodes.
C24_BuilderEqualsManualNesting ==
    Len(seqA) = 4 =>
        /\ op = "ToTChoice" =>
              out = TChoice(EmptyLabel, seqA[1],
                        TChoice(EmptyLabel, seqA[2],
                            TChoice(EmptyLabel, seqA[3], seqA[4])))
        /\ op = "ToTPar" =>
              out = TPar(EmptyLabel, seqA[1],
                        TPar(EmptyLabel, seqA[2],
                            TPar(EmptyLabel, seqA[3], seqA[4], False), False), False)

Continuations ==
    { TEnd("TestLabel1"),
      TInteract(EmptyLabel, "Bob", "Response", TEnd(EmptyLabel)),
      TRec(EmptyLabel, TEnd(EmptyLabel)),
      TChoice(EmptyLabel, TEnd(EmptyLabel), TEnd("TestLabel1")),
      TPar(EmptyLabel, TEnd(EmptyLabel),
           TInteract(EmptyLabel, "Alice", "Message", TEnd(EmptyLabel)), False) }

InitCompose ==
    /\ g \in Trees(MaxOperandNodes)
    /\ me = "none"
    /\ out = NotProjected
    /\ op = "define"
    /\ seqA = Nil
    /\ seqB = Nil

\* type Composed = <S as TSession<IO>>::Compose<A>
ComposeOnce ==
    \E a \in Continuations :
        /\ op = "define"
        /\ out' = Compose(g, a)
        /\ seqA' = <<a>>
        /\ op' = "Compose"
        /\ UNCHANGED <<g, me, seqB>>

\* type Twice = <Composed as TSession<IO>>::Compose<B>
ComposeAgain ==
    \E b \in Continuations :
        /\ op = "Compose"
        /\ out' = Compose(out, b)
        /\ seqA' = Append(seqA, b)
        /\ op' = "ComposeCompose"
        /\ UNCHANGED <<g, me, seqB>>

NextCompose ==
    \/ ComposeOnce
    \/ ComposeAgain

SpecCompose == InitCompose /\ [][NextCompose]_vars

\* C26: for S rooted at TInteract, TRec, TChoice or TPar the root of
\* S::Compose<Rhs> is the same kind of node with the label of the root of S; for
\* S = TEnd<L>, S::Compose<Rhs> is Rhs itself and L is gone.
C26_ComposeKeepsRootLabel ==
    op = "Compose" =>
        IF g.tag = "TEnd" THEN out = seqA[1]
        ELSE out.tag = g.tag /\ out.label = g.label

\* C26 witness: a labelled TEnd composed with a continuation that carries
\* another label at its root.
C26_Witness ==
    /\ op = "Compose"
    /\ g = TEnd("TestLabel1")
    /\ out.tag = "TInteract" /\ out.label = EmptyLabel

\* C30: (S::Compose<A>)::Compose<B> is the same type as S::Compose<A::Compose<B>>.
C30_ComposeAssociative ==
    op = "ComposeCompose" =>
        out = Compose(g, Compose(seqA[1], seqA[2]))

\* C30 witness: both continuations are inserted, the second inside the first, at
\* the two ends of a TChoice.
C30_Witness ==
    /\ op = "ComposeCompose"
    /\ g.tag = "TChoice" /\ g.left.tag = "TEnd" /\ g.right.tag = "TEnd"
    /\ seqA[1].tag = "TInteract" /\ seqA[2].tag = "TRec"
    /\ out.left = out.right
    /\ out.left.cont = seqA[2]

(***************************************************************************)
(* Composition of the projections of the two branches of a TPar            *)
(* (src/src/protocol/transforms.rs, ComposeProjectedParBranches).          *)
(***************************************************************************)
IsEpSkipVariant(T) == IF T.tag = "EpSkip" THEN True ELSE False

IsEpEndVariant(T) == IF T.tag = "EpEnd" THEN True ELSE False

GetLocalLabel(T) == T.label

\* <() as ProjectRoleOrSkip<Me, IO, G, Flag, ParentLbl>>::Out
ProjectRoleOrSkip(Me, G, Flag, ParentLbl) ==
    CASE Flag = True -> ProjectRole(Me, G)
      [] Flag = False -> EpSkip(ParentLbl, Me)
      [] OTHER -> Unresolved

\* A composition in which a Skip on either side absorbs the other operand.
ComposeProjectedParBranchesCase_SkipAbsorbs(LSkip, RSkip, LEnd, REnd, Me, L, R) ==
    IF LSkip = True THEN L
    ELSE IF RSkip = True THEN R
    ELSE EpPar(GetLocalLabel(L), Me, L, R)

ComposeProjectedParBranchesCase(LSkip, RSkip, LEnd, REnd, Me, L, R) ==
    LET flags == <<LSkip, RSkip, LEnd, REnd>>
    IN  CASE flags = <<True, True, False, False>> -> EpSkip(L.label, Me)
          [] flags = <<True, False, False, False>> -> R
          [] flags = <<False, True, False, False>> -> L
          [] flags = <<False, False, False, False>> ->
                EpPar(GetLocalLabel(L), Me, L, R)
          [] flags = <<False, True, True, False>> -> EpEnd(L.label, Me)
          [] flags = <<True, False, False, True>> -> EpEnd(R.label, Me)
          [] flags = <<False, False, True, False>> -> R
          [] flags = <<False, False, False, True>> -> L
          [] flags = <<False, False, True, True>> -> EpEnd(L.label, Me)
          [] OTHER -> Unresolved

ComposeProjectedParBranches(Me, L, R) ==
    ComposeProjectedParBranchesCase(IsEpSkipVariant(L), IsEpSkipVariant(R),
                                    IsEpEndVariant(L), IsEpEndVariant(R), Me, L, R)

\* The branches of the parent TPar: ends, interactions and a choice of ends.
BranchesOfPar ==
    Ends
      \cup {TInteract(l, r, "Message", TEnd(EmptyLabel)) :
                l \in Labels, r \in {"Alice", "Bob"}}
      \cup {TChoice(l, TEnd(EmptyLabel), TEnd(EmptyLabel)) : l \in Labels}

\* Endpoint types of Me that are no Skip, one of each form and label.
ProjectedOperands(Me) ==
    UNION {{ EpEnd(l, Me),
             EpSend(l, Me, "Message", EpEnd(EmptyLabel, Me)),
             EpRecv(l, Me, "Message", EpEnd(EmptyLabel, Me)),
             EpChoice(l, Me, EpEnd(EmptyLabel, Me), EpSkip(l, Me)),
             EpPar(l, Me, EpSend(EmptyLabel, Me, "Message", EpEnd(EmptyLabel, Me)),
                          EpRecv(EmptyLabel, Me, "Response", EpEnd(EmptyLabel, Me))) } :
           l \in Labels}

InitParBranches ==
    /\ g \in {TPar(l, a, b, False) : l \in Labels, a \in BranchesOfPar, b \in BranchesOfPar}
    /\ me = "none"
    /\ out = NotProjected
    /\ op = "define"
    /\ seqA = Nil
    /\ seqB = Nil

\* Each branch of g is projected, or skipped with the label of g where it does
\* not contain the role, and the two results are composed.
ComposeBranchesOfPar ==
    \E r \in Roles :
        LET PL == ProjectRoleOrSkip(r, g.left, ContainsRole(g.left, r), g.label)
            PR == ProjectRoleOrSkip(r, g.right, ContainsRole(g.right, r), g.label)
        IN  /\ op = "define"
            /\ me' = r
            /\ seqA' = <<PL, PR>>
            /\ out' = ComposeProjectedParBranches(r, PL, PR)
            /\ op' = "ComposeBranchesOfPar"
            /\ UNCHANGED <<g, seqB>>

\* type Out = <() as ComposeProjectedParBranches<IO, Me, L, R>>::Out for two
\* endpoint types of Me; a Skip among them was made for a branch of g.
ComposeOperands ==
    \E r \in Roles :
        \E L \in ProjectedOperands(r) \cup {EpSkip(g.label, r)},
           R \in ProjectedOperands(r) \cup {EpSkip(g.label, r)} :
            /\ op = "define"
            /\ me' = r
            /\ seqA' = <<L, R>>
            /\ out' = ComposeProjectedParBranches(r, L, R)
            /\ op' = "ComposeProjectedParBranches"
            /\ UNCHANGED <<g, seqB>>

NextParBranches ==
    \/ ComposeBranchesOfPar
    \/ ComposeOperands

SpecParBranches == InitParBranches /\ [][NextParBranches]_vars

\* The state holds the composition of the two endpoint types in seqA.
Composed == op \in {"ComposeBranchesOfPar", "ComposeProjectedParBranches"}

C28_NonSkipOperands ==
    (Composed /\ seqA[1].tag # "EpSkip" /\ seqA[2].tag # "EpSkip") =>
        IF seqA[1].tag = "EpEnd" /\ seqA[2].tag = "EpEnd" THEN out = seqA[1]
        ELSE out.tag = "EpPar" /\ out.left = seqA[1] /\ out.right = seqA[2]

(***************************************************************************)
(* Projection and presence.                                                *)
(***************************************************************************)
\* The EpPar nodes of an endpoint type.
RECURSIVE EpParNodes(_)
EpParNodes(E) ==
    CASE E.tag \in {"EpSend", "EpRecv"} -> EpParNodes(E.cont)
      [] E.tag = "EpChoice" -> EpParNodes(E.left) \cup EpParNodes(E.right)
      [] E.tag = "EpPar" -> {E} \cup EpParNodes(E.left) \cup EpParNodes(E.right)
      [] OTHER -> {}

====
